---- MODULE Spec2Model ----
(***************************************************************************)
(* A model of bot.py (PlengBot): the message filter of handle_message, the *)
(* per-request thread download_task, and the download engine               *)
(* FastYouTubeDownloader (get_audio_info and its three strategies,         *)
(* validate_direct_url, download_audio, fast_download).                    *)
(*                                                                         *)
(* Every call that leaves the process (the Telegram transport, yt-dlp's    *)
(* extract_info, requests.head / requests.get / iter_content) is one step  *)
(* of a task; what the outside world answers is chosen by the step from a  *)
(* bounded domain.  The code between two such calls is part of the step    *)
(* that follows the call's return.                                         *)
(***************************************************************************)
EXTENDS Integers, Sequences, FiniteSets, TLC

VARIABLES
    pending,   \* inbound updates delivered by the long poll, not yet handled
    handled,   \* one record per message handle_message has run on
    tasks      \* one record per thread started by process_download_async

vars == <<pending, handled, tasks>>

----------------------------------------------------------------------------
(* Python values.  A value that may be None is a sequence of length <= 1:  *)
(* <<>> is None and <<v>> is v.  A dict is a function whose DOMAIN is the   *)
(* set of keys present, so that a missing key and a key holding None       *)
(* differ, as they do for dict.get.                                        *)

PyNone == <<>>

Some(v) == <<v>>

\* d.get(k, default)
Get(d, k, default) == IF k \in DOMAIN d THEN d[k] ELSE default

\* the last element of a non-empty sequence
Last(s) == s[Len(s)]

----------------------------------------------------------------------------
(* Text.  A str is the sequence of its characters.                         *)

IsSpace(c) == c = " "

RECURSIVE LStrip(_)
LStrip(s) == IF s # <<>> /\ IsSpace(Head(s)) THEN LStrip(Tail(s)) ELSE s

RECURSIVE RStrip(_)
RStrip(s) ==
    IF s # <<>> /\ IsSpace(s[Len(s)]) THEN RStrip(SubSeq(s, 1, Len(s) - 1)) ELSE s

\* str.strip()
Strip(s) == RStrip(LStrip(s))

\* s.startswith(p)
StartsWith(s, p) == Len(p) <= Len(s) /\ SubSeq(s, 1, Len(p)) = p

\* `needle in hay` for str: scan the start positions from the left
RECURSIVE InScan(_, _)
InScan(needle, hay) ==
    IF Len(hay) < Len(needle) THEN FALSE
    ELSE IF StartsWith(hay, needle) THEN TRUE
    ELSE InScan(needle, Tail(hay))

InPrefixOnly(needle, hay) == StartsWith(hay, needle)

In(needle, hay) == InScan(needle, hay)

youtube_watch == <<"y", "o", "u", "t", "u", "b", "e", ".", "c", "o", "m", "/", "w", "a", "t", "c", "h">>

youtu_be == <<"y", "o", "u", "t", "u", ".", "b", "e", "/">>

youtube_shorts == <<"y", "o", "u", "t", "u", "b", "e", ".", "c", "o", "m", "/", "s", "h", "o", "r", "t", "s", "/">>

\* bot.py:341
valid_domains == <<youtube_watch, youtu_be, youtube_shorts>>

\* bot.py:342  any(domain in url for domain in valid_domains)
AnyValidDomain(url) == \E i \in 1..Len(valid_domains) : In(valid_domains[i], url)

----------------------------------------------------------------------------
(* The chat transport's calls, as they are recorded in the histories.      *)

Call(op, mid, text, ok) == [op |-> op, mid |-> mid, text |-> text, ok |-> ok]

\* The id the platform gives the k-th message the bot sends while it serves the
\* inbound message `origin`.  Ids are opaque to the bot; all that the platform
\* guarantees, and all that is modelled, is that they differ from each other
\* and from the inbound ids (the positions 1, 2, ... of the inbound messages).
BotMid(origin, k) == 10 * origin + k

UsageHint == "Please send a valid YouTube URL."

TxtAnalyzing == "Analyzing video..."

TxtExtracting == "Extracting audio information..."

TxtExtracted == "Audio Extracted!"

TxtUploading == "Uploading to Telegram..."

TxtComplete == "Download Complete!"

----------------------------------------------------------------------------
(* Threads.  process_download_async starts one thread per call; the record *)
(* holds download_task's locals and the history of what it did.            *)

NewTask(chat, origin, url) ==
    [ chat       |-> chat,
      origin     |-> origin,      \* history: the id of the inbound message served
      url        |-> url,
      pc         |-> "send_status",
      status_msg |-> PyNone,      \* download_task: status_msg
      strat      |-> 0,           \* get_audio_info: the loop's i (0 outside the loop)
      tried      |-> <<>>,        \* history: the strategies invoked and what each gave
      formats    |-> PyNone,      \* history: _try_extract_simple: formats
      info       |-> PyNone,      \* fast_download: audio_info
      probes     |-> 0,           \* history: requests.head calls issued
      head       |-> PyNone,      \* history: what requests.head answered
      gets       |-> 0,           \* history: requests.get calls issued
      reads      |-> 0,           \* history: body chunks read from the response
      runs       |-> 0,           \* history: runs of equal chunks read from the response
      lastlen    |-> 0,           \* history: the length of the last chunk written
      ended      |-> "",          \* history: how the body ended ("" while it has not)
      cl         |-> PyNone,      \* download_audio: content_length
      downloaded |-> 0,           \* download_audio: downloaded (= bytes in audio_buffer)
      err        |-> PyNone,      \* the exception caught at bot.py:455
      user_friendly_msg |-> PyNone,   \* download_task: user_friendly_msg, bot.py:460-475
      log        |-> <<>> ]       \* history: the transport calls of this thread

----------------------------------------------------------------------------
(* yt-dlp.  extract_info either raises or returns None or an info dict.    *)
(* In an info dict the keys duration, is_live and filesize hold a value    *)
(* that may be None; requested_formats holds None or a list; formats holds *)
(* a list; the other keys hold strings.                                    *)

\* bool(d) for an optional dict: None and {} are falsy
TruthyDict(od) == od # PyNone /\ DOMAIN od[1] # {}

\* bool(l) for an optional list: None and [] are falsy
TruthyList(ol) == ol # PyNone /\ ol[1] # <<>>

\* bool(s) for an optional str: None and "" are falsy
TruthyStr(os) == os # PyNone /\ os[1] # ""

TruthyBoolNever(ob) == FALSE

\* bool(b) for an optional bool
TruthyBool(ob) == ob # PyNone /\ ob[1]

\* what a strategy gives: an exception, or a return value (None or a descriptor)
Ret(v) == [raised |-> "", value |-> v]

Raised(kind) == [raised |-> kind, value |-> PyNone]

\* bot.py:120, 173   f.get('acodec') != 'none'
HasAudio(f) == ~("acodec" \in DOMAIN f /\ f.acodec = "none")

\* bot.py:184-197
FormatAudioInfo(info, selected_format) ==
    [ url         |-> IF "url" \in DOMAIN selected_format
                      THEN Some(selected_format.url) ELSE PyNone,
      title       |-> Get(info, "title", <<"A", "u", "d", "i", "o">>),
      uploader    |-> Get(info, "uploader", "Unknown"),
      duration    |-> Get(info, "duration", Some(0)),
      filesize    |-> Get(selected_format, "filesize", PyNone),
      ext         |-> Get(selected_format, "ext", "m4a"),
      has_video   |-> ~("vcodec" \in DOMAIN selected_format
                        /\ selected_format.vcodec = "none"),
      is_live     |-> Get(info, "is_live", Some(FALSE)),
      webpage_url |-> Get(info, "webpage_url", ""),
      format_id   |-> Get(selected_format, "format_id", "unknown") ]

\* bot.py:77-126
TryExtractWithVerbose(ex) ==
    IF ex.raised THEN Raised("DownloadError")
    ELSE IF ~TruthyDict(ex.info) THEN Ret(PyNone)
    ELSE LET info == ex.info[1]
             requested_formats == Get(info, "requested_formats", PyNone)
             formats == Get(info, "formats", <<>>)
             audio_formats == SelectSeq(formats, HasAudio)
         IN  IF TruthyList(requested_formats)
             THEN Ret(Some(FormatAudioInfo(info, requested_formats[1][1])))
             ELSE IF audio_formats = <<>> THEN Ret(PyNone)
             ELSE Ret(Some(FormatAudioInfo(info, audio_formats[1])))

\* bot.py:128-154
TryExtractWithCookies(ex) ==
    IF ex.raised THEN Raised("DownloadError")
    ELSE IF ~TruthyDict(ex.info) THEN Ret(PyNone)
    ELSE LET info == ex.info[1]
             requested == Get(info, "requested_formats", Some(<<info>>))
         IN  IF requested = PyNone THEN Raised("TypeError")       \* None[0]
             ELSE IF requested[1] = <<>> THEN Raised("IndexError") \* [][0]
             ELSE Ret(Some(FormatAudioInfo(info, requested[1][1])))

\* bot.py:177  key=lambda x: x.get('filesize', float('inf'))
SizeKey(f) ==
    IF "filesize" \notin DOMAIN f THEN [k |-> "inf", n |-> 0]
    ELSE IF f.filesize = PyNone THEN [k |-> "none", n |-> 0]
    ELSE [k |-> "num", n |-> f.filesize[1]]

\* a < b on keys that are numbers or inf
KeyLess(a, b) ==
    IF a.k = "inf" THEN FALSE ELSE IF b.k = "inf" THEN TRUE ELSE a.n < b.n

\* bot.py:175-178  min(seq, key=...): the first element is the running minimum,
\* each later one replaces it when its key is smaller; comparing with a None
\* key raises TypeError
RECURSIVE MinBySize(_, _, _)
MinBySize(seq, i, best) ==
    IF i > Len(seq) THEN Ret(Some(best))
    ELSE IF SizeKey(seq[i]).k = "none" \/ SizeKey(best).k = "none"
    THEN Raised("TypeError")
    ELSE MinBySize(seq, i + 1,
                   IF KeyLess(SizeKey(seq[i]), SizeKey(best)) THEN seq[i] ELSE best)

\* bot.py:156-182
TryExtractSimple(ex) ==
    IF ex.raised THEN Raised("DownloadError")
    ELSE IF ~TruthyDict(ex.info) THEN Ret(PyNone)
    ELSE LET info == ex.info[1]
             formats == Get(info, "formats", <<info>>)
             formats_with_audio == SelectSeq(formats, HasAudio)
             smallest == MinBySize(formats_with_audio, 2, formats_with_audio[1])
         IN  IF formats_with_audio # <<>>
             THEN IF smallest.raised # "" THEN smallest
                  ELSE Ret(Some(FormatAudioInfo(info, smallest.value[1])))
             ELSE IF formats = <<>> THEN Raised("IndexError")      \* formats[0]
             ELSE Ret(Some(FormatAudioInfo(info, formats[1])))

strategiesSwapped ==
    <<"_try_extract_with_cookies", "_try_extract_with_verbose", "_try_extract_simple">>

\* bot.py:57-61  the strategies, in the order the loop takes them
strategies == <<"_try_extract_with_verbose", "_try_extract_with_cookies", "_try_extract_simple">>

\* bot.py:66  result = strategy(url)
RunStrategy(name, ex) ==
    CASE name = "_try_extract_with_verbose" -> TryExtractWithVerbose(ex)
      [] name = "_try_extract_with_cookies" -> TryExtractWithCookies(ex)
      [] name = "_try_extract_simple"       -> TryExtractSimple(ex)

\* bot.py:67  `if result:` -- a dict is truthy when it has a key
ResultTruthy(r) == r.raised = "" /\ TruthyDict(r.value)

LoopTurnNoRecovery(i, result) ==
    IF ResultTruthy(result) THEN "return"
    ELSE IF result.raised = "" /\ i < Len(strategies) THEN "continue"
    ELSE "raise"

\* bot.py:63-75  what the loop does with the i-th strategy's outcome: return
\* the result, go on with the next strategy (after a falsy result, or after an
\* exception, which line 70 catches), or leave the loop and raise at line 75
LoopTurn(i, result) ==
    IF ResultTruthy(result) THEN "return"
    ELSE IF i < Len(strategies) THEN "continue"
    ELSE "raise"

----------------------------------------------------------------------------
(* Exceptions.  An exception is the str() the handler at bot.py:459 reads, *)
(* with the name of the raise that made it.                                *)

\* "Could not extract audio information"
MsgCouldNotExtract ==
    <<"C", "o", "u", "l", "d", " ", "n", "o", "t", " ", "e", "x", "t", "r", "a", "c", "t", " ",
      "a", "u", "d", "i", "o", " ", "i", "n", "f", "o", "r", "m", "a", "t", "i", "o", "n">>

\* "Video too long (max 30 minutes)"
MsgTooLong ==
    <<"V", "i", "d", "e", "o", " ", "t", "o", "o", " ", "l", "o", "n", "g", " ", "(", "m", "a",
      "x", " ", "3", "0", " ", "m", "i", "n", "u", "t", "e", "s", ")">>

\* "Live streams not supported"
MsgLive ==
    <<"L", "i", "v", "e", " ", "s", "t", "r", "e", "a", "m", "s", " ", "n", "o", "t", " ", "s",
      "u", "p", "p", "o", "r", "t", "e", "d">>

\* "No audio URL available"
MsgNoUrl ==
    <<"N", "o", " ", "a", "u", "d", "i", "o", " ", "U", "R", "L", " ", "a", "v", "a", "i", "l",
      "a", "b", "l", "e">>

\* "Audio URL is not accessible"
MsgNotAccessible ==
    <<"A", "u", "d", "i", "o", " ", "U", "R", "L", " ", "i", "s", " ", "n", "o", "t", " ", "a",
      "c", "c", "e", "s", "s", "i", "b", "l", "e">>

\* "File too large ("
MsgFileTooLargeHead ==
    <<"F", "i", "l", "e", " ", "t", "o", "o", " ", "l", "a", "r", "g", "e", " ", "(">>

\* "MB)"
MsgMBTail ==
    <<"M", "B", ")">>

\* "File exceeds size limit ("
MsgExceedsHead ==
    <<"F", "i", "l", "e", " ", "e", "x", "c", "e", "e", "d", "s", " ", "s", "i", "z", "e", " ",
      "l", "i", "m", "i", "t", " ", "(">>

\* "Downloaded empty file"
MsgEmpty ==
    <<"D", "o", "w", "n", "l", "o", "a", "d", "e", "d", " ", "e", "m", "p", "t", "y", " ", "f",
      "i", "l", "e">>

\* "Download timeout - server too slow"
MsgTimeout ==
    <<"D", "o", "w", "n", "l", "o", "a", "d", " ", "t", "i", "m", "e", "o", "u", "t", " ", "-",
      " ", "s", "e", "r", "v", "e", "r", " ", "t", "o", "o", " ", "s", "l", "o", "w">>

\* "Network error: "
MsgNetworkHead ==
    <<"N", "e", "t", "w", "o", "r", "k", " ", "e", "r", "r", "o", "r", ":", " ">>

\* "'>' not supported between instances of 'NoneType' and 'int'"
MsgTypeError ==
    <<"'", ">", "'", " ", "n", "o", "t", " ", "s", "u", "p", "p", "o", "r", "t", "e", "d", " ",
      "b", "e", "t", "w", "e", "e", "n", " ", "i", "n", "s", "t", "a", "n", "c", "e", "s", " ",
      "o", "f", " ", "'", "N", "o", "n", "e", "T", "y", "p", "e", "'", " ", "a", "n", "d", " ",
      "'", "i", "n", "t", "'">>

\* "403 Client Error: Forbidden for url: https://rr1.googlevideo.com/videoplayback"
MsgForbidden ==
    <<"4", "0", "3", " ", "C", "l", "i", "e", "n", "t", " ", "E", "r", "r", "o", "r", ":", " ",
      "F", "o", "r", "b", "i", "d", "d", "e", "n", " ", "f", "o", "r", " ", "u", "r", "l", ":",
      " ", "h", "t", "t", "p", "s", ":", "/", "/", "r", "r", "1", ".", "g", "o", "o", "g", "l",
      "e", "v", "i", "d", "e", "o", ".", "c", "o", "m", "/", "v", "i", "d", "e", "o", "p", "l",
      "a", "y", "b", "a", "c", "k">>

\* "503 Server Error: Service Unavailable for url: https://rr1.googlevideo.com/videoplayback"
MsgUnavailable ==
    <<"5", "0", "3", " ", "S", "e", "r", "v", "e", "r", " ", "E", "r", "r", "o", "r", ":", " ",
      "S", "e", "r", "v", "i", "c", "e", " ", "U", "n", "a", "v", "a", "i", "l", "a", "b", "l",
      "e", " ", "f", "o", "r", " ", "u", "r", "l", ":", " ", "h", "t", "t", "p", "s", ":", "/",
      "/", "r", "r", "1", ".", "g", "o", "o", "g", "l", "e", "v", "i", "d", "e", "o", ".", "c",
      "o", "m", "/", "v", "i", "d", "e", "o", "p", "l", "a", "y", "b", "a", "c", "k">>

\* "HTTPSConnectionPool(host='rr1.googlevideo.com', port=443): Max retries exceeded"
MsgConnection ==
    <<"H", "T", "T", "P", "S", "C", "o", "n", "n", "e", "c", "t", "i", "o", "n", "P", "o", "o",
      "l", "(", "h", "o", "s", "t", "=", "'", "r", "r", "1", ".", "g", "o", "o", "g", "l", "e",
      "v", "i", "d", "e", "o", ".", "c", "o", "m", "'", ",", " ", "p", "o", "r", "t", "=", "4",
      "4", "3", ")", ":", " ", "M", "a", "x", " ", "r", "e", "t", "r", "i", "e", "s", " ", "e",
      "x", "c", "e", "e", "d", "e", "d">>

\* "HTTPSConnectionPool(host='rr1.googlevideo.com', port=443): Read timed out. (read timeout=45)"
MsgReadTimedOut ==
    <<"H", "T", "T", "P", "S", "C", "o", "n", "n", "e", "c", "t", "i", "o", "n", "P", "o", "o",
      "l", "(", "h", "o", "s", "t", "=", "'", "r", "r", "1", ".", "g", "o", "o", "g", "l", "e",
      "v", "i", "d", "e", "o", ".", "c", "o", "m", "'", ",", " ", "p", "o", "r", "t", "=", "4",
      "4", "3", ")", ":", " ", "R", "e", "a", "d", " ", "t", "i", "m", "e", "d", " ", "o", "u",
      "t", ".", " ", "(", "r", "e", "a", "d", " ", "t", "i", "m", "e", "o", "u", "t", "=", "4",
      "5", ")">>

\* "A request to the Telegram API was unsuccessful. Error code: 400. Description: Bad Request"
MsgApiError ==
    <<"A", " ", "r", "e", "q", "u", "e", "s", "t", " ", "t", "o", " ", "t", "h", "e", " ", "T",
      "e", "l", "e", "g", "r", "a", "m", " ", "A", "P", "I", " ", "w", "a", "s", " ", "u", "n",
      "s", "u", "c", "c", "e", "s", "s", "f", "u", "l", ".", " ", "E", "r", "r", "o", "r", " ",
      "c", "o", "d", "e", ":", " ", "4", "0", "0", ".", " ", "D", "e", "s", "c", "r", "i", "p",
      "t", "i", "o", "n", ":", " ", "B", "a", "d", " ", "R", "e", "q", "u", "e", "s", "t">>

\* "too long"
NeedleTooLong ==
    <<"t", "o", "o", " ", "l", "o", "n", "g">>

\* "too large"
NeedleTooLarge ==
    <<"t", "o", "o", " ", "l", "a", "r", "g", "e">>

\* "private"
NeedlePrivate ==
    <<"p", "r", "i", "v", "a", "t", "e">>

\* "unavailable"
NeedleUnavailable ==
    <<"u", "n", "a", "v", "a", "i", "l", "a", "b", "l", "e">>

\* "age-restricted"
NeedleAgeRestricted ==
    <<"a", "g", "e", "-", "r", "e", "s", "t", "r", "i", "c", "t", "e", "d">>

\* "could not extract"
NeedleCouldNotExtract ==
    <<"c", "o", "u", "l", "d", " ", "n", "o", "t", " ", "e", "x", "t", "r", "a", "c", "t">>

\* "timeout"
NeedleTimeout ==
    <<"t", "i", "m", "e", "o", "u", "t">>

Upper == <<"A", "B", "C", "D", "E", "F", "G", "H", "I", "J", "K", "L", "M",
           "N", "O", "P", "Q", "R", "S", "T", "U", "V", "W", "X", "Y", "Z">>

LowerAlpha == <<"a", "b", "c", "d", "e", "f", "g", "h", "i", "j", "k", "l", "m",
                "n", "o", "p", "q", "r", "s", "t", "u", "v", "w", "x", "y", "z">>

LowerChar(c) ==
    IF \E i \in 1..Len(Upper) : Upper[i] = c
    THEN LowerAlpha[CHOOSE i \in 1..Len(Upper) : Upper[i] = c]
    ELSE c

\* str.lower()
Lower(s) == [i \in 1..Len(s) |-> LowerChar(s[i])]

\* s[:n]
Prefix(s, n) == SubSeq(s, 1, IF Len(s) < n THEN Len(s) ELSE n)

DigitChar == <<"0", "1", "2", "3", "4", "5", "6", "7", "8", "9">>

\* str(n) for n >= 0
RECURSIVE IntChars(_)
IntChars(n) ==
    IF n < 10 THEN <<DigitChar[n + 1]>>
    ELSE IntChars(n \div 10) \o <<DigitChar[(n % 10) + 1]>>

\* f"{nbytes/1024/1024:.1f}": megabytes, rounded to one decimal
FmtMB(nbytes) ==
    LET tenths == (nbytes * 10 + 524288) \div 1048576
    IN  IntChars(tenths \div 10) \o <<".">> \o IntChars(tenths % 10)

Exc(kind, msg) == [kind |-> kind, msg |-> msg]

ErrExtraction == Exc("ExtractionFailed", MsgCouldNotExtract)           \* bot.py:75

ErrTooLong == Exc("VideoTooLong", MsgTooLong)                          \* bot.py:271

ErrLive == Exc("LiveStreamUnsupported", MsgLive)                       \* bot.py:274

ErrNoUrl == Exc("NoDirectUrl", MsgNoUrl)                               \* bot.py:277

ErrUnreachable == Exc("UrlUnreachable", MsgNotAccessible)              \* bot.py:215

\* bot.py:229
ErrTooLargeDeclared(content_length) ==
    Exc("TooLarge", MsgFileTooLargeHead \o FmtMB(content_length) \o MsgMBTail)

\* bot.py:240
ErrTooLargeRunning(max_size) ==
    Exc("TooLarge", MsgExceedsHead \o FmtMB(max_size) \o MsgMBTail)

ErrEmpty == Exc("EmptyPayload", MsgEmpty)                              \* bot.py:243

ErrEmptyBuffer == Exc("EmptyBuffer", MsgEmpty)                         \* bot.py:392

ErrTimeout == Exc("Timeout", MsgTimeout)                               \* bot.py:250

ErrNetwork(e) == Exc("NetworkError", MsgNetworkHead \o Prefix(e, 50))  \* bot.py:252

ErrType == Exc("TypeError", MsgTypeError)                              \* bot.py:270, None > 1800

ErrTransport(e) == Exc("TransportError", e)                            \* raised by a bot.* call

\* a text sent to the chat: a fixed text, followed by the text taken from an
\* exception or from the title of the video
Text(s) == [fixed |-> s, tail |-> <<>>]

\* bot.py:459-475
UserFriendlyMsg(error_msg) ==
    LET low == Lower(error_msg)
    IN  IF In(NeedleTooLong, low) THEN Text("Video too long (max 30 minutes)")
        ELSE IF In(NeedleTooLarge, low) THEN Text("File too large (max 50MB)")
        ELSE IF In(NeedlePrivate, low) \/ In(NeedleUnavailable, low)
        THEN Text("Video is private or unavailable")
        ELSE IF In(NeedleAgeRestricted, low)
        THEN Text("Age-restricted content not supported")
        ELSE IF In(NeedleCouldNotExtract, low)
        THEN Text("Could not extract audio. Video may be restricted.")
        ELSE IF In(NeedleTimeout, low)
        THEN Text("Download timeout. Try a shorter video.")
        ELSE [fixed |-> "Error: ", tail |-> Prefix(error_msg, 60)]

md_charsAndBackslash ==
    <<"_", "*", "[", "]", "(", ")", "~", "grave", ">", "#", "+", "-", "=", "|", "{", "}", ".", "!",
      "\\">>

\* bot.py:365  ("grave" stands for the grave accent, which a string of this
\* language cannot hold)
md_chars ==
    <<"_", "*", "[", "]", "(", ")", "~", "grave", ">", "#", "+", "-", "=", "|", "{", "}", ".", "!">>

\* str.replace(old, new) for a one-character old
RECURSIVE Replace(_, _, _)
Replace(s, old, new) ==
    IF s = <<>> THEN <<>>
    ELSE (IF Head(s) = old THEN new ELSE <<Head(s)>>) \o Replace(Tail(s), old, new)

\* bot.py:360-369  result[i] is the value of result after turn i of the loop
clean_text(text) ==
    IF text = <<>> THEN <<>>
    ELSE LET result[i \in 0..Len(md_chars)] ==
                 IF i = 0 THEN text
                 ELSE Replace(result[i - 1], md_chars[i], <<"\\", md_chars[i]>>)
         IN  result[Len(md_chars)]

----------------------------------------------------------------------------
(* The download engine's conditions.                                       *)

\* bot.py:208  max_size=50*1024*1024
MaxSize == 50 * 1024 * 1024

\* bot.py:234  iter_content(chunk_size=8192)
ChunkSize == 8192

\* bot.py:270
MaxDuration == 1800

\* bot.py:49  ThreadPoolExecutor(max_workers=3)
max_workers == 3

\* bot.py:421
DocumentThreshold == 20 * 1024 * 1024

TooLongInclusive(audio_info) == audio_info.duration[1] >= MaxDuration

\* bot.py:270  audio_info['duration'] > 1800
TooLong(audio_info) == audio_info.duration[1] > MaxDuration

ChecksLiveFirst(audio_info) ==
    IF TruthyBool(audio_info.is_live) THEN Some(ErrLive)
    ELSE IF audio_info.duration = PyNone THEN Some(ErrType)
    ELSE IF TooLong(audio_info) THEN Some(ErrTooLong)
    ELSE IF ~TruthyStr(audio_info.url) THEN Some(ErrNoUrl)
    ELSE PyNone

\* bot.py:270-277  the checks of fast_download on the resolved descriptor, in
\* the code's order: the exception the first failing one raises, or None
Checks(audio_info) ==
    IF audio_info.duration = PyNone THEN Some(ErrType)
    ELSE IF TooLong(audio_info) THEN Some(ErrTooLong)
    ELSE IF TruthyBool(audio_info.is_live) THEN Some(ErrLive)
    ELSE IF ~TruthyStr(audio_info.url) THEN Some(ErrNoUrl)
    ELSE PyNone

ValidateDirectUrlOptimistic(p) == IF p.raised THEN TRUE ELSE p.status \in {200, 206}

\* bot.py:199-206
ValidateDirectUrl(p) == IF p.raised THEN FALSE ELSE p.status \in {200, 206}

\* requests: Response.raise_for_status raises HTTPError for 4xx and 5xx
RaiseForStatus(status) == status >= 400 /\ status < 600

\* requests: str() of the HTTPError of a status
HttpErrorText(status) == IF status >= 500 THEN MsgUnavailable ELSE MsgForbidden

DeclaredTooLargeInclusive(content_length, max_size) ==
    content_length # PyNone /\ content_length[1] >= max_size

\* bot.py:228  content_length and int(content_length) > max_size
DeclaredTooLarge(content_length, max_size) ==
    content_length # PyNone /\ content_length[1] > max_size

ExceedsLimitInclusive(downloaded, max_size) == downloaded >= max_size

\* bot.py:239  downloaded > max_size
ExceedsLimit(downloaded, max_size) == downloaded > max_size

NeverEmpty(downloaded) == FALSE

\* bot.py:242  downloaded == 0
IsEmptyDownload(downloaded) == downloaded = 0

\* bot.py:391  filesize == 0
IsEmptyBuffer(filesize) == filesize = 0

UseDocumentInclusive(filesize) == filesize >= DocumentThreshold

\* bot.py:421  filesize > 20 * 1024 * 1024
UseDocument(filesize) == filesize > DocumentThreshold

\* bot.py:234-240 on a run of n chunks of len bytes each.  The running total
\* only grows, so when the total after the whole run does not trip the check
\* at line 239 no chunk of the run does; otherwise the loop stops at the first
\* chunk j of the run that trips it, with j chunks written to the buffer.
ReadChunks(downloaded, n, len, max_size) ==
    IF len = 0                                                  \* `if chunk:`
    THEN [downloaded |-> downloaded, reads |-> n, exceeded |-> FALSE]
    ELSE IF ~ExceedsLimit(downloaded + n * len, max_size)
    THEN [downloaded |-> downloaded + n * len, reads |-> n, exceeded |-> FALSE]
    ELSE LET j == CHOOSE k \in 1..n :
                      /\ ExceedsLimit(downloaded + k * len, max_size)
                      /\ k = 1 \/ ~ExceedsLimit(downloaded + (k - 1) * len, max_size)
         IN  [downloaded |-> downloaded + j * len, reads |-> j, exceeded |-> TRUE]

----------------------------------------------------------------------------
(* The outside world's answers.                                            *)

TgOk == [ok |-> TRUE, msg |-> <<>>]

TgFail == [ok |-> FALSE, msg |-> MsgApiError]

Sleep(secs) == [op |-> "sleep", secs |-> secs]

\* download_task's except clause, bot.py:455-486, up to its first transport
\* call: with a status message the next step edits it; without one the
\* handler only sleeps and the thread ends
Caught(tk, e) ==
    IF tk.status_msg # PyNone
    THEN [tk EXCEPT !.err = Some(e), !.user_friendly_msg = Some(UserFriendlyMsg(e.msg)),
                    !.pc = "handler_edit"]
    ELSE [tk EXCEPT !.err = Some(e), !.pc = "done", !.log = Append(@, Sleep(10))]

Logged(tk, call) == [tk EXCEPT !.log = Append(@, call)]

SetTaskCrashAll(t, tk) ==
    tasks' = IF tk.pc = "crashed"
             THEN [u \in DOMAIN tasks |-> [tasks[u] EXCEPT !.pc = "crashed"]]
             ELSE [tasks EXCEPT ![t] = tk]

\* a step of thread t: download_task's variables are local to its call
\* (bot.py:373-374), so the step changes the state of thread t only
SetTask(t, tk) == tasks' = [tasks EXCEPT ![t] = tk]

----------------------------------------------------------------------------
(* handle_message, bot.py:334-358 (process_download_async, 371-489, starts *)
(* the thread and returns).                                                *)

HandleMessageDeleteRaises(D) ==
    /\ pending # <<>>
    /\ LET message == Head(pending)
           url == Strip(message.text)
       IN  \E o \in D.tg :
             IF ~AnyValidDomain(url)
             THEN /\ handled' = Append(handled,
                        [ msg |-> message, url |-> url, task |-> 0,
                          calls |-> <<Call("send_message",
                                           IF o.ok THEN BotMid(message.mid, 1) ELSE 0,
                                           Text(UsageHint), o.ok)>> ])
                  /\ tasks' = tasks
             ELSE IF ~o.ok
             THEN /\ handled' = Append(handled,
                        [ msg |-> message, url |-> url, task |-> 0,
                          calls |-> <<Call("delete_message", message.mid, Text(""), o.ok)>> ])
                  /\ tasks' = tasks
             ELSE /\ handled' = Append(handled,
                        [ msg |-> message, url |-> url, task |-> Len(tasks) + 1,
                          calls |-> <<Call("delete_message", message.mid, Text(""), o.ok),
                                      Call("thread.start", Len(tasks) + 1, Text(""), TRUE)>> ])
                  /\ tasks' = Append(tasks, NewTask(message.chat, message.mid, url))
    /\ pending' = Tail(pending)

\* the calls of one run of handle_message are recorded in the order in which
\* it makes them; thread.start is process_download_async, bot.py:488-489
HandleMessage(D) ==
    /\ pending # <<>>
    /\ LET message == Head(pending)
           url == Strip(message.text)
       IN  \E o \in D.tg :
             IF ~AnyValidDomain(url)
             THEN /\ handled' = Append(handled,
                        [ msg |-> message, url |-> url, task |-> 0,
                          calls |-> <<Call("send_message",
                                           IF o.ok THEN BotMid(message.mid, 1) ELSE 0,
                                           Text(UsageHint), o.ok)>> ])
                  /\ tasks' = tasks
             ELSE /\ handled' = Append(handled,
                        [ msg |-> message, url |-> url, task |-> Len(tasks) + 1,
                          calls |-> <<Call("delete_message", message.mid, Text(""), o.ok),
                                      Call("thread.start", Len(tasks) + 1, Text(""), TRUE)>> ])
                  /\ tasks' = Append(tasks, NewTask(message.chat, message.mid, url))
    /\ pending' = Tail(pending)

----------------------------------------------------------------------------
(* download_task, bot.py:373-486.                                          *)

\* bot.py:378
SendStatus(t, D) ==
    /\ tasks[t].pc = "send_status"
    /\ \E o \in D.tg :
         LET mid == BotMid(tasks[t].origin, 1)
         IN  IF o.ok
             THEN SetTask(t, [Logged(tasks[t], Call("send_message", mid, Text(TxtAnalyzing), TRUE))
                                EXCEPT !.status_msg = Some(mid), !.pc = "edit_extracting"])
             ELSE SetTask(t, Caught(Logged(tasks[t], Call("send_message", 0, Text(TxtAnalyzing), FALSE)),
                                    ErrTransport(o.msg)))
    /\ UNCHANGED <<pending, handled>>

EditStepSendsNew(t, D, text, sleeps, next) ==
    /\ \E o \in D.tg :
         LET tk == Logged(tasks[t], Call("send_message", BotMid(tasks[t].origin, 3), text, o.ok))
         IN  SetTask(t, IF o.ok
                        THEN [tk EXCEPT !.log = @ \o sleeps, !.pc = next,
                                        !.strat = IF next = "resolve" THEN 1 ELSE @]
                        ELSE Caught(tk, ErrTransport(o.msg)))
    /\ UNCHANGED <<pending, handled>>

\* an edit of the status message inside the try block: on success the task
\* sleeps as the code does after it and goes on at `next`; on failure the
\* exception is caught at bot.py:455
EditStep(t, D, text, sleeps, next) ==
    /\ \E o \in D.tg :
         LET tk == Logged(tasks[t], Call("edit_message_text", tasks[t].status_msg[1], text, o.ok))
         IN  SetTask(t, IF o.ok
                        THEN [tk EXCEPT !.log = @ \o sleeps, !.pc = next,
                                        !.strat = IF next = "resolve" THEN 1 ELSE @]
                        ELSE Caught(tk, ErrTransport(o.msg)))
    /\ UNCHANGED <<pending, handled>>

\* bot.py:383-386  then fast_download and get_audio_info start
EditExtracting(t, D) ==
    /\ tasks[t].pc = "edit_extracting"
    /\ EditStep(t, D, Text(TxtExtracting), <<>>, "resolve")

\* bot.py:63-75, one turn of the loop; on a result, bot.py:264-280
Strategy(t, D) ==
    /\ tasks[t].pc = "resolve"
    /\ \E ex \in D.ex[tasks[t].strat] :
         LET i == tasks[t].strat
             result == RunStrategy(strategies[i], ex)
             tk == [tasks[t] EXCEPT !.tried = Append(@, [name |-> strategies[i], res |-> result]),
                                    !.formats = IF strategies[i] = "_try_extract_simple"
                                                   /\ ~ex.raised /\ TruthyDict(ex.info)
                                                THEN Some(Get(ex.info[1], "formats", <<ex.info[1]>>))
                                                ELSE @]
             returned == [tk EXCEPT !.info = result.value, !.strat = 0]
             failed == Checks(result.value[1])
         IN  SetTask(t,
                 CASE LoopTurn(i, result) = "return" ->
                        IF failed # PyNone THEN Caught(returned, failed[1])
                        ELSE [returned EXCEPT !.pc = "probe"]
                   [] LoopTurn(i, result) = "continue" -> [tk EXCEPT !.strat = i + 1]
                   [] OTHER -> Caught([tk EXCEPT !.strat = 0], ErrExtraction))
    /\ UNCHANGED <<pending, handled>>

\* bot.py:213-215, the HEAD request of validate_direct_url
Probe(t, D) ==
    /\ tasks[t].pc = "probe"
    /\ \E p \in D.probe :
         LET tk == [tasks[t] EXCEPT !.probes = @ + 1, !.head = Some(p)]
         IN  SetTask(t, IF ValidateDirectUrl(p) THEN [tk EXCEPT !.pc = "get"]
                        ELSE Caught(tk, ErrUnreachable))
    /\ UNCHANGED <<pending, handled>>

\* bot.py:224-232, 249-252
GetResponse(t, D) ==
    /\ tasks[t].pc = "get"
    /\ \E g \in D.get :
         LET tk == [tasks[t] EXCEPT !.gets = @ + 1]
         IN  SetTask(t,
                 IF g.exc = "Timeout" THEN Caught(tk, ErrTimeout)
                 ELSE IF g.exc # "" THEN Caught(tk, ErrNetwork(MsgConnection))
                 ELSE IF RaiseForStatus(g.status)
                 THEN Caught(tk, ErrNetwork(HttpErrorText(g.status)))
                 ELSE IF DeclaredTooLarge(g.content_length, MaxSize)
                 THEN Caught([tk EXCEPT !.cl = g.content_length],
                             ErrTooLargeDeclared(g.content_length[1]))
                 ELSE [tk EXCEPT !.cl = g.content_length, !.pc = "read"])
    /\ UNCHANGED <<pending, handled>>

\* bot.py:234-252, then 283 and 388-396 when the body ends
ReadBody(t, D) ==
    /\ tasks[t].pc = "read"
    /\ \E r \in D.read :
         /\ r.kind = "chunks" => tasks[t].runs < D.maxRuns
         /\ LET tk == tasks[t]
                got == ReadChunks(tk.downloaded, r.n, r.len, MaxSize)
                read == [tk EXCEPT !.downloaded = got.downloaded,
                                   !.reads = @ + got.reads, !.runs = @ + 1,
                                   !.lastlen = IF r.len = 0 THEN @ ELSE r.len]
                end == [tk EXCEPT !.ended = r.kind]
            IN  SetTask(t,
                    CASE r.kind = "chunks" ->
                           IF got.exceeded THEN Caught(read, ErrTooLargeRunning(MaxSize))
                           ELSE read
                      [] r.kind = "eof" ->
                           IF IsEmptyDownload(tk.downloaded) THEN Caught(end, ErrEmpty)
                           ELSE IF IsEmptyBuffer(tk.downloaded) THEN Caught(end, ErrEmptyBuffer)
                           ELSE [end EXCEPT !.pc = "edit_extracted"]
                      [] r.kind = "Timeout" -> Caught(end, ErrTimeout)
                      [] OTHER -> Caught(end, ErrNetwork(MsgReadTimedOut)))
    /\ UNCHANGED <<pending, handled>>

\* bot.py:399-410
EditExtracted(t, D) ==
    /\ tasks[t].pc = "edit_extracted"
    /\ EditStep(t, D, [fixed |-> TxtExtracted,
                        tail |-> clean_text(Prefix(tasks[t].info[1].title, 40))],
                <<Sleep(1)>>, "edit_uploading")

\* bot.py:413-414
EditUploading(t, D) ==
    /\ tasks[t].pc = "edit_uploading"
    /\ EditStep(t, D, Text(TxtUploading), <<>>, "upload")

\* bot.py:421-437
Upload(t, D) ==
    /\ tasks[t].pc = "upload"
    /\ \E o \in D.tg :
         LET filesize == tasks[t].downloaded
             op == IF UseDocument(filesize) THEN "send_document" ELSE "send_audio"
             safe_caption == clean_text(Prefix(tasks[t].info[1].title, 100))
             tk == Logged(tasks[t], Call(op, IF o.ok THEN BotMid(tasks[t].origin, 2) ELSE 0,
                                         [fixed |-> "caption", tail |-> safe_caption], o.ok))
         IN  SetTask(t, IF o.ok THEN [tk EXCEPT !.pc = "edit_complete"]
                        ELSE Caught(tk, ErrTransport(o.msg)))
    /\ UNCHANGED <<pending, handled>>

\* bot.py:442-452
EditComplete(t, D) ==
    /\ tasks[t].pc = "edit_complete"
    /\ EditStep(t, D, [fixed |-> TxtComplete,
                        tail |-> clean_text(Prefix(tasks[t].info[1].title, 40))],
                <<Sleep(10)>>, "delete_status")

\* bot.py:453, still inside the try block
DeleteStatus(t, D) ==
    /\ tasks[t].pc = "delete_status"
    /\ \E o \in D.tg :
         LET tk == Logged(tasks[t], Call("delete_message", tasks[t].status_msg[1], Text(""), o.ok))
         IN  SetTask(t, IF o.ok THEN [tk EXCEPT !.pc = "done"]
                        ELSE Caught(tk, ErrTransport(o.msg)))
    /\ UNCHANGED <<pending, handled>>

\* bot.py:458-481; an exception of the edit is caught by nothing and ends the thread
HandlerEdit(t, D) ==
    /\ tasks[t].pc = "handler_edit"
    /\ \E o \in D.tg :
         LET tk == Logged(tasks[t],
                     [ op |-> "edit_message_text", mid |-> tasks[t].status_msg[1],
                       text |-> tasks[t].user_friendly_msg[1], ok |-> o.ok ])
         IN  SetTask(t, IF o.ok THEN [Logged(tk, Sleep(10)) EXCEPT !.pc = "handler_delete"]
                        ELSE [tk EXCEPT !.pc = "crashed"])
    /\ UNCHANGED <<pending, handled>>

\* bot.py:482-486
HandlerDelete(t, D) ==
    /\ tasks[t].pc = "handler_delete"
    /\ \E o \in D.tg :
         SetTask(t, [Logged(tasks[t], Call("delete_message", tasks[t].status_msg[1], Text(""), o.ok))
                       EXCEPT !.pc = "done"])
    /\ UNCHANGED <<pending, handled>>

----------------------------------------------------------------------------
(* Bounds and input domains.                                               *)

\* a text is made of at most MaxParts parts
MaxParts == 3

\* a formats list of an info dict holds at most MaxFormats formats
MaxFormats == 2

\* a response body is read as at most MaxRuns runs of equal chunks
MaxRuns == 3

\* the long poll delivers at most MaxMsgs messages
MaxMsgs == 2

\* the messages delivered when the pool is exercised
PoolMsgs == 4

P_https == <<"h", "t", "t", "p", "s", ":", "/", "/", "w", "w", "w", ".">>

P_youtube == <<"y", "o", "u", "t", "u", "b", "e", ".", "c", "o", "m", "/">>

P_youtu_be == <<"y", "o", "u", "t", "u", ".", "b", "e">>

P_slash == <<"/">>

P_watch == <<"w", "a", "t", "c", "h">>

P_v == <<"?", "v", "=">>

P_shorts == <<"s", "h", "o", "r", "t", "s">>

P_x == <<"x">>

P_space == <<" ">>

Parts == {P_https, P_youtube, P_youtu_be, P_slash, P_watch, P_v, P_shorts, P_x, P_space}

RECURSIVE Concats(_)
Concats(n) ==
    IF n = 0 THEN {<<>>}
    ELSE LET shorter == Concats(n - 1)
         IN  shorter \cup {p \o x : p \in Parts, x \in shorter}

\* the texts of at most MaxParts parts; a text message is never empty
Texts == Concats(MaxParts) \ {<<>>}

\* "https://www.youtube.com/watch?v=x"
TextWatch == P_https \o P_youtube \o P_watch \o P_v \o P_x

\* "x"
TextOther == P_x

Msg(chat, mid, text) == [chat |-> chat, mid |-> mid, text |-> text]

Chats == {1, 2}

EmptyDict == [k \in {} |-> 0]

FmtM4a == [ url |-> "u140", acodec |-> "mp4a", vcodec |-> "none", filesize |-> Some(300),
            ext |-> "m4a", format_id |-> "140" ]

FmtOpus == [ url |-> "u251", acodec |-> "opus", vcodec |-> "none", filesize |-> Some(200),
             ext |-> "webm", format_id |-> "251" ]

FmtMux == [ url |-> "u18", acodec |-> "mp4a", vcodec |-> "avc1", filesize |-> Some(200),
            ext |-> "mp4", format_id |-> "18" ]

FmtVideo == [ url |-> "u137", acodec |-> "none", vcodec |-> "avc1", filesize |-> Some(100),
              ext |-> "mp4", format_id |-> "137" ]

FmtNoUrl == [ acodec |-> "mp4a", vcodec |-> "none", format_id |-> "139" ]

FmtNoneSize == [ url |-> "u141", acodec |-> "mp4a", vcodec |-> "none", filesize |-> PyNone,
                 ext |-> "m4a", format_id |-> "141" ]

Formats == {FmtM4a, FmtOpus, FmtMux, FmtVideo, FmtNoUrl, FmtNoneSize}

FormatLists == UNION {[1..n -> Formats] : n \in 0..MaxFormats}

MetaKeys == [title |-> <<"T">>, uploader |-> "U", webpage_url |-> "W"]

DurationKeys ==
    {EmptyDict, [duration |-> PyNone], [duration |-> Some(MaxDuration)],
     [duration |-> Some(MaxDuration + 1)]}

LiveKeys == {EmptyDict, [is_live |-> Some(TRUE)]}

RequestedKeys ==
    {EmptyDict, [requested_formats |-> PyNone], [requested_formats |-> Some(<<>>)],
     [requested_formats |-> Some(<<FmtM4a>>)], [requested_formats |-> Some(<<FmtNoUrl>>)]}

FormatsKeys == {EmptyDict} \cup {[formats |-> fl] : fl \in FormatLists}

\* the selected format's keys, as yt-dlp copies them to the top of the info dict
TopKeys == {EmptyDict, FmtMux}

Infos ==
    {MetaKeys @@ d @@ l @@ r @@ f @@ top :
        d \in DurationKeys, l \in LiveKeys, r \in RequestedKeys, f \in FormatsKeys,
        top \in TopKeys}

ExRaise == [raised |-> TRUE, info |-> PyNone]

ExNone == [raised |-> FALSE, info |-> PyNone]

ExInfo(info) == [raised |-> FALSE, info |-> Some(info)]

\* a video of MaxDuration seconds with one audio format selected
GoodInfo == MetaKeys @@ [duration |-> Some(MaxDuration), requested_formats |-> Some(<<FmtM4a>>)] @@ FmtM4a

ExAll == {ExRaise, ExNone, ExInfo(EmptyDict)} \cup {ExInfo(i) : i \in Infos}

ProbeOk == [raised |-> FALSE, status |-> 200]

ProbeAll ==
    {[raised |-> TRUE, status |-> 0]} \cup {[raised |-> FALSE, status |-> c] : c \in {200, 204, 206, 403, 404}}

GetOk == [exc |-> "", status |-> 200, content_length |-> PyNone]

GetAll ==
    {[exc |-> e, status |-> 0, content_length |-> PyNone] : e \in {"Timeout", "ConnectionError"}}
    \cup {[exc |-> "", status |-> c, content_length |-> cl] :
            c \in {200, 403, 503},
            cl \in {PyNone, Some(0), Some(ChunkSize), Some(MaxSize), Some(MaxSize + 1)}}

Chunks(n, len) == [kind |-> "chunks", n |-> n, len |-> len]

ReadEnd(kind) == [kind |-> kind, n |-> 0, len |-> 0]

\* 2560 chunks of 8192 bytes are 20 MiB, 6400 are 50 MiB
ReadAll ==
    {Chunks(n, len) : n \in {1, 2560, 6399}, len \in {0, 1, ChunkSize}}
    \cup {ReadEnd(k) : k \in {"eof", "Timeout", "ConnectionError"}}

\* the smallest world: every call of the transport succeeds, the first
\* strategy gives a usable descriptor or nothing, the body is one chunk
DMin(inboxes) ==
    [ inboxes |-> inboxes,
      tg      |-> {TgOk},
      ex      |-> <<{ExInfo(GoodInfo), ExNone}, {ExNone}, {ExNone}>>,
      probe   |-> {ProbeOk},
      get     |-> {GetOk},
      read    |-> {Chunks(1, ChunkSize), ReadEnd("eof")},
      maxRuns |-> 1 ]

\* one message of any text
DFilter == [DMin({<<Msg(1, 1, x)>> : x \in Texts}) EXCEPT !.tg = {TgOk, TgFail}]

\* a title holds at most MaxTitle characters
MaxTitle == 3

\* one accepted message for a video of any title: plain characters, reserved
\* characters and the backslash
DClean ==
    [DMin({<<Msg(1, 1, TextWatch)>>}) EXCEPT
        !.ex = <<{ExInfo([GoodInfo EXCEPT !.title = title]) :
                    title \in UNION {[1..n -> {"A", "_", "*", ".", "\\"}] : n \in 0..MaxTitle}},
                 {ExNone}, {ExNone}>>]

\* PoolMsgs accepted messages
DPool == DMin({[i \in 1..PoolMsgs |-> Msg(1 + (i % 2), i, TextWatch)]})

\* one accepted message, every answer of yt-dlp
DResolve ==
    [DMin({<<Msg(1, 1, TextWatch)>>}) EXCEPT
        !.ex = <<ExAll, ExAll, ExAll>>,
        !.probe = {ProbeOk, [raised |-> FALSE, status |-> 403]}]

\* one accepted message, every answer of the media server
DDownload ==
    [DMin({<<Msg(1, 1, TextWatch)>>}) EXCEPT
        !.probe = ProbeAll, !.get = GetAll, !.read = ReadAll, !.maxRuns = MaxRuns]

\* at most MaxMsgs messages from two chats, a transport that may fail
DMain ==
    [DMin(UNION {[1..n -> {Msg(c, 0, x) : c \in Chats, x \in {TextWatch, TextOther}}] :
                    n \in 0..MaxMsgs})
        EXCEPT !.tg = {TgOk, TgFail},
               !.ex = <<{ExInfo(GoodInfo), ExRaise}, {ExRaise}, {ExNone, ExRaise}>>,
               !.probe = {ProbeOk, [raised |-> FALSE, status |-> 403]}]

\* two accepted messages, one from each chat, for a video without title; the
\* transport may fail at any call and a body may stall until the read times out
DIsolation ==
    [DMin({<<Msg(1, 1, TextWatch), Msg(2, 2, TextWatch)>>}) EXCEPT
        !.tg = {TgOk, TgFail},
        !.ex = <<{ExInfo([GoodInfo EXCEPT !.title = <<>>]), ExNone}, {ExNone}, {ExNone}>>,
        !.read = {Chunks(1, ChunkSize), ReadEnd("eof"), ReadEnd("Timeout")}]

\* one accepted message; the transport, yt-dlp and the media server may fail
\* at any call
DTask ==
    [DMin({<<Msg(1, 1, TextWatch)>>}) EXCEPT
        !.tg = {TgOk, TgFail},
        !.ex = <<{ExInfo(GoodInfo), ExRaise}, {ExRaise}, {ExNone, ExRaise}>>,
        !.probe = {ProbeOk, [raised |-> FALSE, status |-> 403]},
        !.get = {GetOk, [exc |-> "Timeout", status |-> 0, content_length |-> PyNone],
                 [exc |-> "", status |-> 200, content_length |-> Some(MaxSize + 1)]},
        !.read = ReadAll,
        !.maxRuns = MaxRuns]

\* one accepted message for a video that is usable, too long, of unknown
\* duration, live or without direct URL; the transport and the media server
\* may fail at any call and the body may have any size
DUpload ==
    [DTask EXCEPT
        !.ex = <<{ExInfo(GoodInfo),
                  ExInfo([GoodInfo EXCEPT !.duration = Some(MaxDuration + 1)]),
                  ExInfo([GoodInfo EXCEPT !.duration = PyNone]),
                  ExInfo(GoodInfo @@ [is_live |-> Some(TRUE)]),
                  ExInfo([GoodInfo EXCEPT !.requested_formats = Some(<<FmtNoUrl>>)])},
                 {ExNone}, {ExNone}>>]

----------------------------------------------------------------------------
(* Specifications.                                                         *)

\* infinity_polling hands the messages over in order; their ids are their
\* positions in the chat's history
InitOf(D) ==
    /\ \E inbox \in D.inboxes :
         pending = [i \in 1..Len(inbox) |-> [inbox[i] EXCEPT !.mid = i]]
    /\ handled = <<>>
    /\ tasks = <<>>

NextOf(D) ==
    \/ HandleMessage(D)
    \/ \E t \in 1..Len(tasks) : SendStatus(t, D)
    \/ \E t \in 1..Len(tasks) : EditExtracting(t, D)
    \/ \E t \in 1..Len(tasks) : Strategy(t, D)
    \/ \E t \in 1..Len(tasks) : Probe(t, D)
    \/ \E t \in 1..Len(tasks) : GetResponse(t, D)
    \/ \E t \in 1..Len(tasks) : ReadBody(t, D)
    \/ \E t \in 1..Len(tasks) : EditExtracted(t, D)
    \/ \E t \in 1..Len(tasks) : EditUploading(t, D)
    \/ \E t \in 1..Len(tasks) : Upload(t, D)
    \/ \E t \in 1..Len(tasks) : EditComplete(t, D)
    \/ \E t \in 1..Len(tasks) : DeleteStatus(t, D)
    \/ \E t \in 1..Len(tasks) : HandlerEdit(t, D)
    \/ \E t \in 1..Len(tasks) : HandlerDelete(t, D)

Init == InitOf(DMain)

Next == NextOf(DMain)

\* the bot: messages from two chats, their threads interleaved
Spec == Init /\ [][Next]_vars

\* handle_message on one message of any text
SpecFilter == InitOf(DFilter) /\ [][NextOf(DFilter)]_vars

\* one request, every answer of yt-dlp
SpecResolve == InitOf(DResolve) /\ [][NextOf(DResolve)]_vars

\* one request, every answer of the media server
SpecDownload == InitOf(DDownload) /\ [][NextOf(DDownload)]_vars

\* PoolMsgs requests at once
SpecPool == InitOf(DPool) /\ [][NextOf(DPool)]_vars

\* two requests from two chats, their threads interleaved, with crashes and stalls
SpecIsolation == InitOf(DIsolation) /\ [][NextOf(DIsolation)]_vars

\* one request, every title
SpecClean == InitOf(DClean) /\ [][NextOf(DClean)]_vars

\* one request, failures at every step
SpecTask == InitOf(DTask) /\ [][NextOf(DTask)]_vars

\* one task on any descriptor and any body
SpecUpload == InitOf(DUpload) /\ [][NextOf(DUpload)]_vars

----------------------------------------------------------------------------
(* Properties.                                                             *)

TaskIds == 1..Len(tasks)

\* `needle` occurs in `hay` at some position
Occurs(needle, hay) ==
    \E i \in 1..(Len(hay) - Len(needle) + 1) : SubSeq(hay, i, i + Len(needle) - 1) = needle

\* a task was started for the i-th handled message, and only then
Started(i) ==
    /\ handled[i].task # 0 <=> \E t \in TaskIds : tasks[t].origin = handled[i].msg.mid
    /\ handled[i].task # 0 => handled[i].task \in TaskIds

\* the i-th handled message was answered with the usage hint, and no task was
\* started for it
Rejected(i) ==
    /\ handled[i].task = 0
    /\ Len(handled[i].calls) = 1
    /\ handled[i].calls[1].op = "send_message"
    /\ handled[i].calls[1].text = Text(UsageHint)

\* "youtube.com/watch?v="
WatchPageShape == youtube_watch \o <<"?", "v", "=">>

\* C1, as stated: a message is accepted (a download task is started for it)
\* exactly when its text has the watch-page shape "youtube.com/watch?v=", the
\* short-link shape "youtu.be/" or the shorts shape "youtube.com/shorts/";
\* every other text is answered with the usage hint and starts no task.
C1_AsStated ==
    \A i \in 1..Len(handled) :
        LET text == handled[i].msg.text
            shaped == \/ Occurs(WatchPageShape, text)
                      \/ Occurs(youtu_be, text)
                      \/ Occurs(youtube_shorts, text)
        IN  /\ Started(i)
            /\ shaped => handled[i].task # 0
            /\ ~shaped => Rejected(i)

\* C1, amended: a message is accepted exactly when its text contains
\* "youtube.com/watch" (with or without "?v="), "youtu.be/" or
\* "youtube.com/shorts/"; every other text is answered with the usage hint and
\* no task is ever started for it.
C1_FilterAccepts ==
    \A i \in 1..Len(handled) :
        LET text == handled[i].msg.text
            marked == \/ Occurs(youtube_watch, text)
                      \/ Occurs(youtu_be, text)
                      \/ Occurs(youtube_shorts, text)
        IN  /\ Started(i)
            /\ marked => handled[i].task # 0
            /\ ~marked => Rejected(i)

\* a text with the marker "youtube.com/watch" behind a prefix and without
\* "?v=" was accepted and its task has run to its end
C1_Witness ==
    \E i \in 1..Len(handled) :
        /\ Occurs(youtube_watch, handled[i].msg.text)
        /\ ~StartsWith(handled[i].msg.text, youtube_watch)
        /\ ~Occurs(WatchPageShape, handled[i].msg.text)
        /\ handled[i].task # 0
        /\ tasks[handled[i].task].pc = "done"

\* the order of the resolver: A, B, C
ResolverOrder ==
    <<"_try_extract_with_verbose", "_try_extract_with_cookies", "_try_extract_simple">>

\* a strategy succeeded: it returned a descriptor
Succeeded(res) == res.raised = "" /\ res.value # PyNone

\* C2: the strategies are invoked in the order A, B, C; none is invoked after
\* one that succeeded; the descriptor get_audio_info returns is the one of the
\* strategy that succeeded, so that when A succeeds it is A's and neither B nor
\* C is invoked.
C2_ResolverOrder ==
    \A t \in TaskIds :
        LET tried == tasks[t].tried
        IN  /\ Len(tried) <= Len(ResolverOrder)
            /\ \A k \in 1..Len(tried) :
                 /\ tried[k].name = ResolverOrder[k]
                 /\ Succeeded(tried[k].res) =>
                      /\ k = Len(tried)
                      /\ tasks[t].info = tried[k].res.value
                      /\ tasks[t].strat = 0
            /\ tasks[t].info # PyNone => Succeeded(Last(tried).res)

\* strategy A succeeded and the request went on with A's descriptor to the probe
C2_Witness ==
    \E t \in TaskIds :
        /\ Len(tasks[t].tried) = 1
        /\ Succeeded(tasks[t].tried[1].res)
        /\ tasks[t].info = tasks[t].tried[1].res.value
        /\ tasks[t].probes = 1

\* a strategy failed: it raised, or it returned None
Failed(res) == res.raised # "" \/ res.value = PyNone

\* C3: an exception of a strategy never leaves get_audio_info: after A or B
\* raised, the next strategy is the one attempted next, and after C raised the
\* failure is the extraction-failed error; when A raised and B returned a
\* descriptor the result is B's descriptor; and get_audio_info fails with the
\* extraction-failed error only after all three strategies failed.
C3_FallThrough ==
    \A t \in TaskIds :
        LET tk == tasks[t]
            tried == tk.tried
        IN  /\ \A k \in 1..Len(tried) :
                 tried[k].res.raised # "" =>
                    \/ k < Len(tried)
                    \/ k < Len(ResolverOrder) /\ tk.pc = "resolve" /\ tk.strat = k + 1
                    \/ k = Len(ResolverOrder) /\ tk.err # PyNone /\ tk.err[1] = ErrExtraction
            /\ ( /\ Len(tried) >= 2
                 /\ tried[1].res.raised # ""
                 /\ Succeeded(tried[2].res) )
               => tk.info = tried[2].res.value /\ Len(tried) = 2
            /\ (tk.err # PyNone /\ tk.err[1].kind = "ExtractionFailed")
               => /\ Len(tried) = Len(ResolverOrder)
                  /\ \A k \in 1..Len(tried) : Failed(tried[k].res)
                  /\ tk.info = PyNone

\* A raised, B returned a descriptor, and the request went on with B's
C3_Witness ==
    \E t \in TaskIds :
        /\ Len(tasks[t].tried) = 2
        /\ tasks[t].tried[1].res.raised # ""
        /\ Succeeded(tasks[t].tried[2].res)
        /\ tasks[t].info = tasks[t].tried[2].res.value
        /\ tasks[t].probes = 1

\* C4: get_audio_info never returns a descriptor without a direct URL: a
\* strategy that gives one counts as failed and the next strategy is tried.
C4_NoUrlFallsThrough ==
    \A t \in TaskIds :
        /\ tasks[t].info # PyNone => TruthyStr(tasks[t].info[1].url)
        /\ \A k \in 1..Len(tasks[t].tried) :
             LET res == tasks[t].tried[k].res
             IN  (Succeeded(res) /\ ~TruthyStr(res.value[1].url))
                 => \/ k < Len(tasks[t].tried)
                    \/ tasks[t].pc = "resolve"
                    \/ k = Len(ResolverOrder)

\* the resolved descriptor has a duration that is a number
Numeric(tk) == tk.info # PyNone /\ tk.info[1].duration # PyNone

Kind(tk) == IF tk.err = PyNone THEN "" ELSE tk.err[1].kind

\* C5: a resolved descriptor of more than 1800 seconds fails as video-too-long
\* before any probe, GET or read; one of at most 1800 seconds (1800 included)
\* never fails as video-too-long.
C5_DurationGate ==
    \A t \in TaskIds :
        Numeric(tasks[t]) =>
            IF tasks[t].info[1].duration[1] > 1800
            THEN /\ Kind(tasks[t]) = "VideoTooLong"
                 /\ tasks[t].probes = 0 /\ tasks[t].gets = 0 /\ tasks[t].reads = 0
            ELSE Kind(tasks[t]) # "VideoTooLong"

\* a descriptor of exactly 1800 seconds passed the gate and was probed
C5_Witness ==
    \E t \in TaskIds :
        /\ Numeric(tasks[t])
        /\ tasks[t].info[1].duration[1] = 1800
        /\ tasks[t].probes = 1

\* C6: fast_download checks in the order resolve, duration, live, direct URL,
\* probe, download, and the first check that fails gives the failure: too long
\* wins over live and over a missing URL, live wins over a missing URL; no
\* probe is issued unless every earlier check passed, no GET unless the probe
\* succeeded, and no chunk is read without a GET.
C6_CheckOrder ==
    \A t \in TaskIds :
        LET tk == tasks[t]
            long == tk.info[1].duration[1] > 1800
            live == TruthyBool(tk.info[1].is_live)
            nourl == ~TruthyStr(tk.info[1].url)
        IN  /\ tk.info = PyNone => tk.probes = 0
            /\ Numeric(tk) =>
                 /\ long => Kind(tk) = "VideoTooLong"
                 /\ (~long /\ live) => Kind(tk) = "LiveStreamUnsupported"
                 /\ (~long /\ ~live /\ nourl) => Kind(tk) = "NoDirectUrl"
                 /\ (long \/ live \/ nourl) => tk.probes = 0
            /\ tk.probes > 0 => Numeric(tk)
            /\ Kind(tk) = "UrlUnreachable" => tk.probes = 1 /\ tk.gets = 0
            /\ tk.gets > 0 => tk.probes = 1 /\ Kind(tk) # "UrlUnreachable"
            /\ tk.reads > 0 => tk.gets = 1

\* a descriptor that is too long, live and without URL failed as too long
C6_Witness ==
    \E t \in TaskIds :
        /\ Numeric(tasks[t])
        /\ tasks[t].info[1].duration[1] > 1800
        /\ TruthyBool(tasks[t].info[1].is_live)
        /\ ~TruthyStr(tasks[t].info[1].url)
        /\ Kind(tasks[t]) = "VideoTooLong"

\* the download failed on the running byte total
FailedOnTotal(tk) == tk.err # PyNone /\ tk.err[1] = ErrTooLargeRunning(MaxSize)

Ended(tk) == tk.pc \in {"handler_edit", "handler_delete", "done", "crashed"}

\* C7, as stated: when the download aborts on the running total, the bytes
\* buffered exceed max_size by less than one chunk of 8192 bytes.
C7_AsStated ==
    \A t \in TaskIds :
        FailedOnTotal(tasks[t]) =>
            /\ tasks[t].downloaded > MaxSize
            /\ tasks[t].downloaded - MaxSize < 8192

\* C7, amended: the running total is checked after every chunk: while the
\* body is being read the total is at most max_size; a total above max_size is
\* the too-large failure, raised at the first chunk that took the total above
\* max_size, whatever Content-Length said, after which nothing more is read;
\* and the bytes buffered then exceed max_size by at most one chunk (8192
\* bytes).
C7_AbortOnTotal ==
    \A t \in TaskIds :
        LET tk == tasks[t]
        IN  /\ tk.pc = "read" => tk.downloaded <= MaxSize
            /\ tk.downloaded > MaxSize <=> FailedOnTotal(tk)
            /\ FailedOnTotal(tk) =>
                 /\ tk.downloaded - tk.lastlen <= MaxSize
                 /\ tk.downloaded - MaxSize <= 8192
                 /\ Ended(tk)
                 /\ tk.ended = ""

\* the total stood at exactly max_size and one more full chunk aborted the
\* download, with Content-Length absent
C7_Witness ==
    \E t \in TaskIds :
        /\ FailedOnTotal(tasks[t])
        /\ tasks[t].cl = PyNone
        /\ tasks[t].downloaded = MaxSize + 8192

\* the download failed on the declared Content-Length
FailedOnDeclared(tk) == tk.err # PyNone /\ StartsWith(tk.err[1].msg, MsgFileTooLargeHead)

\* C8: a declared Content-Length above max_size is the too-large failure
\* before any chunk is read or buffered; a declared Content-Length of at most
\* max_size (max_size included) does not fail at that check.
C8_DeclaredTooLarge ==
    \A t \in TaskIds :
        LET tk == tasks[t]
        IN  /\ (tk.cl # PyNone /\ tk.cl[1] > MaxSize)
               => /\ FailedOnDeclared(tk) /\ Kind(tk) = "TooLarge"
                  /\ tk.reads = 0 /\ tk.downloaded = 0 /\ tk.runs = 0
                  /\ Ended(tk)
            /\ (tk.cl # PyNone /\ tk.cl[1] <= MaxSize) => ~FailedOnDeclared(tk)
            /\ (tk.gets = 1 /\ tk.cl = PyNone) => ~FailedOnDeclared(tk)

\* Content-Length was max_size + 1 and the download failed with nothing read
C8_Witness ==
    \E t \in TaskIds :
        /\ tasks[t].cl = Some(MaxSize + 1)
        /\ FailedOnDeclared(tasks[t])
        /\ tasks[t].reads = 0

\* download_audio returned its buffer to download_task
Returned(tk) ==
    tk.pc \in {"edit_extracted", "edit_uploading", "upload", "edit_complete", "delete_status"}
    \/ \E k \in 1..Len(tk.log) : tk.log[k].op = "edit_message_text" /\ tk.log[k].text.fixed = TxtExtracted

\* C9: a body that ends normally after zero bytes is the empty-payload failure
\* of download_audio, not a returned buffer; a returned buffer is never empty;
\* and the empty-payload failure is neither the timeout nor the network-error
\* failure, which are what a body that ends in a transport exception gives.
C9_EmptyPayload ==
    \A t \in TaskIds :
        LET tk == tasks[t]
        IN  /\ (tk.ended = "eof" /\ tk.downloaded = 0)
               => /\ tk.err # PyNone /\ tk.err[1] = ErrEmpty
                  /\ Kind(tk) \notin {"NetworkError", "Timeout"}
                  /\ tk.err[1].msg \notin {ErrTimeout.msg, ErrNetwork(MsgReadTimedOut).msg}
                  /\ ~Returned(tk)
            /\ Returned(tk) => tk.ended = "eof" /\ tk.downloaded > 0
            /\ tk.ended = "Timeout" => Kind(tk) = "Timeout"
            /\ tk.ended = "ConnectionError" => Kind(tk) = "NetworkError"

\* the body ended normally with zero bytes after empty chunks were read
C9_Witness ==
    \E t \in TaskIds :
        /\ tasks[t].ended = "eof"
        /\ tasks[t].downloaded = 0
        /\ tasks[t].reads > 0
        /\ Kind(tasks[t]) = "EmptyPayload"

\* a thread is executing from its start until download_task ends
Executing(tk) == tk.pc \notin {"done", "crashed"}

\* C10: at most max_workers (3) download tasks are executing at any time.
C10_PoolBound == Cardinality({t \in TaskIds : Executing(tasks[t])}) <= max_workers

\* a step of the thread of task t
TaskStep(t, D) ==
    \/ SendStatus(t, D) \/ EditExtracting(t, D) \/ Strategy(t, D) \/ Probe(t, D)
    \/ GetResponse(t, D) \/ ReadBody(t, D) \/ EditExtracted(t, D) \/ EditUploading(t, D)
    \/ Upload(t, D) \/ EditComplete(t, D) \/ DeleteStatus(t, D) \/ HandlerEdit(t, D)
    \/ HandlerDelete(t, D)

\* the answers of DIsolation under which no call fails; a step that can be
\* taken with one of these answers can be taken
DQuiet ==
    [DMin(DIsolation.inboxes) EXCEPT
        !.ex = <<{ExInfo([GoodInfo EXCEPT !.title = <<>>])}, {ExNone}, {ExNone}>>]

\* a task can take its next step whatever the other tasks do, and the receive
\* loop can take the next message whatever the tasks do
NobodyWaits ==
    /\ pending # <<>> => ENABLED HandleMessage(DQuiet)
    /\ \A t \in TaskIds : Executing(tasks[t]) => ENABLED TaskStep(t, DQuiet)

\* a step changes at most one task, and handling a message changes none
OneTaskPerStep ==
    /\ \A t \in TaskIds :
         tasks'[t] # tasks[t] => \A u \in TaskIds \ {t} : tasks'[u] = tasks[u]
    /\ handled' # handled =>
         /\ \A t \in TaskIds : tasks'[t] = tasks[t]
         /\ Len(handled') = Len(handled) + 1

\* C11: tasks are isolated: a step of one task (also its stall, its timeout
\* or its crash on an exception that escapes download_task) leaves every other
\* task's state unchanged; a task that has not ended can always take its next
\* step, whatever state the other tasks are in; and handle_message returns
\* after starting the thread, so the next message can be handled while tasks
\* are in flight.
C11_Isolation == []NobodyWaits /\ [][OneTaskPerStep]_vars

\* with requests from two chats, one task crashed and the other completed, or
\* one is stalled in its download while the other completed
C11_Witness ==
    \E t, u \in TaskIds :
        /\ tasks[t].chat # tasks[u].chat
        /\ tasks[t].pc = "crashed"
        /\ tasks[u].pc = "done" /\ tasks[u].err = PyNone

\* the task failed: an exception reached the except clause of download_task
Failure(tk) == tk.err # PyNone

\* the last three entries of the log are the edit that shows `text` on the
\* status message, the visibility delay, and the delete of the status message
EndsWithReport(tk, text) ==
    LET n == Len(tk.log)
    IN  /\ n >= 3
        /\ tk.status_msg # PyNone
        /\ tk.log[n - 2].op = "edit_message_text" /\ tk.log[n - 2].ok
        /\ tk.log[n - 2].mid = tk.status_msg[1]
        /\ tk.log[n - 2].text = text
        /\ tk.log[n - 1] = Sleep(10)
        /\ tk.log[n].op = "delete_message" /\ tk.log[n].mid = tk.status_msg[1]

\* C12: every task that failed, at whatever step, has ended with exactly one
\* edit of the status message that shows the explanation of the failure,
\* followed by the visibility delay and the delete of the status message.
C12_FailureReported ==
    \A t \in TaskIds :
        (Failure(tasks[t]) /\ ~Executing(tasks[t])) =>
            /\ EndsWithReport(tasks[t], UserFriendlyMsg(tasks[t].err[1].msg))
            /\ Cardinality({k \in 1..Len(tasks[t].log) :
                    /\ tasks[t].log[k].op = "edit_message_text"
                    /\ tasks[t].log[k].text = UserFriendlyMsg(tasks[t].err[1].msg)}) = 1

\* the positions of the uploads in the log of a task
Uploads(tk) == {k \in 1..Len(tk.log) : tk.log[k].op \in {"send_audio", "send_document"}}

\* C13: the upload call is chosen by the size of the buffer alone: a buffer of
\* more than 20 MiB is sent with send_document, one of at most 20 MiB (20 MiB
\* included) with send_audio; a task issues at most one upload, and exactly
\* one once its download has succeeded and the upload step is behind it.
C13_UploadPath ==
    \A t \in TaskIds :
        LET tk == tasks[t]
        IN  /\ \A k \in Uploads(tk) :
                 /\ tk.downloaded > 20 * 1024 * 1024 => tk.log[k].op = "send_document"
                 /\ tk.downloaded <= 20 * 1024 * 1024 => tk.log[k].op = "send_audio"
            /\ Cardinality(Uploads(tk)) <= 1
            /\ Uploads(tk) # {} => Returned(tk)
            /\ tk.pc \in {"edit_complete", "delete_status"} => Cardinality(Uploads(tk)) = 1
            /\ (tk.pc = "done" /\ ~Failure(tk)) => Cardinality(Uploads(tk)) = 1

\* a buffer of exactly 20 MiB was sent with send_audio
C13_Witness ==
    \E t \in TaskIds :
        /\ tasks[t].downloaded = 20 * 1024 * 1024
        /\ \E k \in Uploads(tasks[t]) : tasks[t].log[k].op = "send_audio"

\* a reserved markup character
Reserved(c) == \E i \in 1..Len(md_chars) : md_chars[i] = c

\* `t` with one backslash put before each of its reserved characters
RECURSIVE EscapedOnce(_)
EscapedOnce(t) ==
    IF t = <<>> THEN <<>>
    ELSE (IF Reserved(Head(t)) THEN <<"\\", Head(t)>> ELSE <<Head(t)>>) \o EscapedOnce(Tail(t))

\* C14, as stated: for the caption of every upload, which is clean_text of the
\* title: a title without reserved characters is unchanged; every reserved
\* character of the title is in the caption with one backslash before it, the
\* other characters unchanged and in order; and clean_text of the caption is
\* the caption again (an escaped text is not escaped a second time).
C14_AsStated ==
    \A t \in TaskIds :
        \A k \in Uploads(tasks[t]) :
            LET title == tasks[t].info[1].title
                caption == tasks[t].log[k].text.tail
            IN  /\ (\A i \in 1..Len(title) : ~Reserved(title[i])) => caption = title
                /\ caption = EscapedOnce(title)
                /\ clean_text(caption) = caption

\* C14, amended: as above, but clean_text of the caption is the caption again
\* only when the title has no reserved character; a caption with a reserved
\* character is escaped once more by a second clean_text.
C14_Escaping ==
    \A t \in TaskIds :
        \A k \in Uploads(tasks[t]) :
            LET title == tasks[t].info[1].title
                caption == tasks[t].log[k].text.tail
                plain == \A i \in 1..Len(title) : ~Reserved(title[i])
            IN  /\ plain => caption = title
                /\ caption = EscapedOnce(title)
                /\ plain => clean_text(caption) = caption
                /\ ~plain => clean_text(caption) = EscapedOnce(caption)
                /\ ~plain => clean_text(caption) # caption

\* a title with a reserved character after a backslash was escaped and sent
C14_Witness ==
    \E t \in TaskIds :
        \E k \in Uploads(tasks[t]) :
            /\ tasks[t].info[1].title = <<"A", "\\", "_">>
            /\ tasks[t].log[k].text.tail = <<"A", "\\", "\\", "_">>

\* C15: validate_direct_url never raises: when the HEAD request raised (a
\* network error or a timeout) or answered a status other than 200 and 206,
\* no exception of the probe reaches the caller; download_audio fails with the
\* url-unreachable failure and no GET is issued; and the url-unreachable
\* failure is never raised after a probe that answered 200 or 206.
C15_ProbeNeverRaises ==
    \A t \in TaskIds :
        LET tk == tasks[t]
            answered == ~tk.head[1].raised /\ tk.head[1].status \in {200, 206}
        IN  /\ tk.head = PyNone <=> tk.probes = 0
            /\ tk.head # PyNone =>
                 /\ ~answered => /\ tk.err # PyNone /\ tk.err[1] = ErrUnreachable
                                 /\ tk.gets = 0 /\ tk.reads = 0
                                 /\ Ended(tk)
                 /\ answered => /\ Kind(tk) # "UrlUnreachable"
                                /\ tk.pc = "get" \/ tk.gets = 1
            /\ Kind(tk) = "UrlUnreachable" => tk.head # PyNone /\ tk.gets = 0

\* the HEAD request raised and the task failed as url-unreachable without a GET
C15_Witness ==
    \E t \in TaskIds :
        /\ tasks[t].head # PyNone /\ tasks[t].head[1].raised
        /\ Kind(tasks[t]) = "UrlUnreachable"
        /\ tasks[t].gets = 0
        /\ tasks[t].pc = "done"

\* the text the except clause put on the status message of a failed task
Shown(tk) == {tk.log[k].text : k \in {j \in 1..Len(tk.log) :
                 /\ tk.log[j].op = "edit_message_text"
                 /\ tk.user_friendly_msg # PyNone
                 /\ tk.log[j].text = tk.user_friendly_msg[1]}}

\* C16: the text shown for a failure depends on its kind alone: two failures
\* of the same kind show the same text; a too-large failure, raised on the
\* declared Content-Length or on the running total, shows "File too large
\* (max 50MB)", and a timeout failure shows the timeout text.
C16_TextByKind ==
    /\ \A t, u \in TaskIds :
         (Failure(tasks[t]) /\ Failure(tasks[u]) /\ Kind(tasks[t]) = Kind(tasks[u]))
            => tasks[t].user_friendly_msg = tasks[u].user_friendly_msg
    /\ \A t \in TaskIds :
         /\ Kind(tasks[t]) = "TooLarge"
              => Shown(tasks[t]) \subseteq {Text("File too large (max 50MB)")}
         /\ Kind(tasks[t]) = "Timeout"
              => Shown(tasks[t]) \subseteq {Text("Download timeout. Try a shorter video.")}

\* the positions in the log at which the completion summary was written
Completed(tk) == {k \in 1..Len(tk.log) :
                    /\ tk.log[k].op = "edit_message_text" /\ tk.log[k].ok
                    /\ tk.log[k].text.fixed = TxtComplete}

\* C17: once the completion summary is written the request stays completed:
\* a failing delete of the status message is swallowed, the task does not
\* fail, and no later edit puts another text on the status message.
C17_DeleteBestEffort ==
    \A t \in TaskIds :
        \A k \in Completed(tasks[t]) :
            /\ ~Failure(tasks[t])
            /\ tasks[t].pc \in {"delete_status", "done"}
            /\ \A j \in (k + 1)..Len(tasks[t].log) : tasks[t].log[j].op # "edit_message_text"

\* C18: for an accepted message handle_message first attempts to delete the
\* inbound message and then starts exactly one download task, whether the
\* delete succeeded or failed; for a rejected message it attempts no delete
\* and sends exactly one reply.
C18_DeleteThenStart ==
    \A i \in 1..Len(handled) :
        LET h == handled[i]
            started == {t \in TaskIds : tasks[t].origin = h.msg.mid}
        IN  IF AnyValidDomain(Strip(h.msg.text))
            THEN /\ Len(h.calls) = 2
                 /\ h.calls[1].op = "delete_message" /\ h.calls[1].mid = h.msg.mid
                 /\ h.calls[2].op = "thread.start" /\ h.calls[2].mid = h.task
                 /\ started = {h.task}
                 /\ tasks[h.task].chat = h.msg.chat /\ tasks[h.task].url = h.url
            ELSE /\ Len(h.calls) = 1
                 /\ h.calls[1].op = "send_message" /\ h.calls[1].text = Text(UsageHint)
                 /\ started = {}

\* the delete of the inbound message failed and the task was started and ran
C18_Witness ==
    \E i \in 1..Len(handled) :
        /\ handled[i].calls[1].op = "delete_message" /\ ~handled[i].calls[1].ok
        /\ handled[i].task # 0
        /\ tasks[handled[i].task].pc = "done"

\* the texts a task put, or tried to put, into the chat, in order
StatusCalls(tk) ==
    SelectSeq(tk.log, LAMBDA c : c.op \in {"send_message", "edit_message_text"})

\* the progress texts in the order of download_task
ProgressOrder == <<TxtAnalyzing, TxtExtracting, TxtExtracted, TxtUploading, TxtComplete>>

\* C19: a task sends one status message and then only edits it: its texts are
\* a prefix of Analyzing, Extracting, extraction summary, Uploading,
\* completion summary, followed on failure by the error text; only the first
\* is sent, the others are edits; every edit and every delete of the task
\* targets the message id the initial send returned; and an upload comes only
\* after the Uploading edit succeeded.
C19_OneStatusMessage ==
    \A t \in TaskIds :
        LET tk == tasks[t]
            st == StatusCalls(tk)
            n == Len(st)
        IN  /\ \E m \in 0..Len(ProgressOrder) :
                 /\ m <= n
                 /\ \A i \in 1..m : st[i].text.fixed = ProgressOrder[i]
                 /\ \/ n = m
                    \/ /\ n = m + 1
                       /\ Failure(tk) /\ tk.user_friendly_msg # PyNone
                       /\ st[n].text = tk.user_friendly_msg[1]
            /\ \A i \in 1..n : st[i].op = "send_message" <=> i = 1
            /\ n > 0 => tk.log[1] = st[1]
            /\ \A k \in 1..Len(tk.log) :
                 tk.log[k].op \in {"edit_message_text", "delete_message"}
                    => /\ tk.log[1].ok
                       /\ tk.log[k].mid = tk.log[1].mid
                       /\ tk.status_msg = Some(tk.log[1].mid)
            /\ \A k \in Uploads(tk) :
                 \E j \in 1..(k - 1) :
                    /\ tk.log[j].op = "edit_message_text" /\ tk.log[j].ok
                    /\ tk.log[j].text = Text(TxtUploading)

\* the upload failed: the texts are Analyzing, Extracting, extraction summary,
\* Uploading and the error text, and the status message was deleted
C19_Witness ==
    \E t \in TaskIds :
        /\ Len(StatusCalls(tasks[t])) = 5
        /\ Failure(tasks[t])
        /\ \E k \in Uploads(tasks[t]) : ~tasks[t].log[k].ok
        /\ tasks[t].pc = "done"

\* the result of strategy C in a task, when it was invoked on an info dict
SimpleResult(tk) == Last(tk.tried).res

\* the format `res` was made from is f
SelectedIs(res, f) ==
    /\ res.raised = "" /\ res.value # PyNone
    /\ res.value[1].format_id = Get(f, "format_id", "unknown")
    /\ res.value[1].url = (IF "url" \in DOMAIN f THEN Some(f.url) ELSE PyNone)

\* f declares a size
Sized(f) == "filesize" \in DOMAIN f /\ f.filesize # PyNone

\* C20: on a formats list that is not empty strategy C does not raise; when
\* audio-bearing formats declare a size it selects the one of them with the
\* smallest size, the earliest of these on a tie; when no format of the list
\* declares a size (missing or null on all) it selects the first format.
C20_SmallestAudio ==
    \A t \in TaskIds :
        (tasks[t].formats # PyNone /\ tasks[t].formats[1] # <<>>) =>
            LET fs == tasks[t].formats[1]
                res == SimpleResult(tasks[t])
                sized == {i \in 1..Len(fs) : HasAudio(fs[i]) /\ Sized(fs[i])}
                best == CHOOSE i \in sized :
                           \A j \in sized : \/ fs[i].filesize[1] < fs[j].filesize[1]
                                            \/ fs[i].filesize[1] = fs[j].filesize[1] /\ i <= j
            IN  /\ res.raised = ""
                /\ sized # {} => SelectedIs(res, fs[best])
                /\ (\A i \in 1..Len(fs) : ~Sized(fs[i])) => SelectedIs(res, fs[1])

\* a descriptor is usable: its direct URL is present, it is not live and its
\* duration is known and at most 1800 s
Usable(audio_info) ==
    /\ audio_info.url # PyNone /\ audio_info.url[1] # ""
    /\ ~(audio_info.is_live # PyNone /\ audio_info.is_live[1])
    /\ audio_info.duration # PyNone /\ audio_info.duration[1] <= 1800

\* the buffer of a task whose body has ended holds more than 0 and at most
\* 50 MiB
BufferInRange(tk) == tk.downloaded > 0 /\ tk.downloaded <= 50 * 1024 * 1024

\* C21: whenever a task has issued an upload (send_audio or send_document),
\* the descriptor it downloaded from is usable and the buffer it uploads is
\* the whole body, of more than 0 and at most 50 MiB; a task whose descriptor
\* is not usable, or whose buffer is empty when the body ends or has grown
\* past 50 MiB, is in its failure path (or behind it) with the failure
\* recorded, and has issued no upload.
C21_UploadInvariant ==
    \A t \in TaskIds :
        LET tk == tasks[t]
            unusable == tk.info # PyNone /\ ~Usable(tk.info[1])
            badBuffer == \/ tk.ended = "eof" /\ ~BufferInRange(tk)
                         \/ tk.downloaded > 50 * 1024 * 1024
        IN  /\ Uploads(tk) # {} =>
                 /\ tk.info # PyNone /\ Usable(tk.info[1])
                 /\ tk.ended = "eof" /\ BufferInRange(tk)
            /\ (unusable \/ badBuffer) =>
                 /\ Failure(tk) /\ Ended(tk)
                 /\ Uploads(tk) = {}

\* a buffer of exactly 50 MiB from a usable descriptor was uploaded
C21_Witness ==
    \E t \in TaskIds :
        /\ tasks[t].downloaded = 50 * 1024 * 1024
        /\ Usable(tasks[t].info[1])
        /\ \E k \in Uploads(tasks[t]) : tasks[t].log[k].ok

====
